---- MODULE Spec2Model ----
(***************************************************************************)
(* Bidding dialogue simulator of langchain-agents.py: DialogueAgent,       *)
(* BiddingDialogueAgent, DialogueSimulator, ask_for_bid (tenacity retry)   *)
(* and select_next_speaker.                                                *)
(*                                                                         *)
(* A Python str is a sequence of fragments: single characters where the    *)
(* code inspects characters (bid texts), whole literals elsewhere.         *)
(* A Python list index is kept 0-based (idx); sequences are 1-based, so    *)
(* agents[idx] of the code is agents[idx + 1] here.                        *)
(***************************************************************************)
EXTENDS Integers, Sequences, FiniteSets, TLC

VARIABLES
    agents,           \* DialogueSimulator.agents: the roster, as the agents' names
    message_history,  \* message_history[i]: DialogueAgent.message_history of agent i
    _step,            \* DialogueSimulator._step
    pc,               \* position of the driving code: "idle" between calls, else inside step()
    bids,             \* select_next_speaker: the list bids, while step() runs
    attempt_number,   \* tenacity: attempt number of the ask_for_bid in progress or last finished
    outcome,          \* how the last call of the chat model (by bid() or send()) ended
    idx,              \* step(): speaker_idx once select_next_speaker returned, else None
    request,          \* content of the last message handed to the chat model
    result,           \* what the last simulator call gave its caller
    entry,            \* the last simulator call, with message_history and _step when it began
    log,              \* the last reset() and the inject() and step() calls whose line
                      \* was received since
    main,             \* position of the module's main code (lines 612-628), "any" when
                      \* the simulator is called in any order
    n                 \* the loop counter n of the main code

vars == <<agents, message_history, _step, pc, bids, attempt_number, outcome,
          idx, request, result, entry, log, main, n>>

\* the variables of the main code, which no method of the simulator touches
driver == <<main, n>>

----------------------------------------------------------------------------
(* Bounds of the model *)

MaxAgents == 3      \* Spec: rosters of 1..MaxAgents agents
MaxTurns == 2       \* Spec: inject() and step() are called while _step < MaxTurns
MaxBidders == 4     \* SpecStep: rosters of 1..MaxBidders agents
MaxTextLen == 6     \* SpecParse: bid texts of up to MaxTextLen characters

----------------------------------------------------------------------------
(* Strings *)

RECURSIVE join(_, _)
\* sep.join(parts): the parts with sep between them, computed by halves to
\* keep the depth of the evaluation low for the long lists of SpecLoop
join(sep, parts) ==
    IF parts = <<>> THEN <<>>
    ELSE IF Len(parts) = 1 THEN parts[1]
    ELSE LET half == Len(parts) \div 2 IN
         join(sep, SubSeq(parts, 1, half)) \o sep
            \o join(sep, SubSeq(parts, half + 1, Len(parts)))

Digits == {"0", "1", "2", "3", "4", "5", "6", "7", "8", "9"}

DigitValue(c) ==
    CASE c = "0" -> 0 [] c = "1" -> 1 [] c = "2" -> 2 [] c = "3" -> 3
      [] c = "4" -> 4 [] c = "5" -> 5 [] c = "6" -> 6 [] c = "7" -> 7
      [] c = "8" -> 8 [] c = "9" -> 9

RECURSIVE DecimalValue(_)
\* value of a non-empty run of digits, read in base 10
DecimalValue(ds) ==
    IF ds = <<>> THEN 0
    ELSE 10 * DecimalValue(SubSeq(ds, 1, Len(ds) - 1)) + DigitValue(ds[Len(ds)])

AllDigits(s) == \A i \in 1..Len(s) : s[i] \in Digits

----------------------------------------------------------------------------
(* Values: the outcome of a call is a returned value or a raised exception *)

None == [kind |-> "none"]
Return(v) == [kind |-> "return", value |-> v]
Raise(e) == [kind |-> "raise", error |-> e]

\* exception types the backend can raise: ValueError and one that is not a ValueError
Errors == {"ValueError", "RuntimeError"}

----------------------------------------------------------------------------
(* Bid parsing: bid_parser.parse and int() *)

RECURSIVE DigitRun(_, _)
\* \d+ is greedy: the number of consecutive digits of text from position i on
DigitRun(text, i) ==
    IF i <= Len(text) /\ text[i] \in Digits THEN 1 + DigitRun(text, i + 1) ELSE 0

\* the regex <(\d+)> matches at position i
MatchAt(text, i) ==
    /\ text[i] = "<"
    /\ DigitRun(text, i + 1) >= 1
    /\ i + 1 + DigitRun(text, i + 1) <= Len(text)
    /\ text[i + 1 + DigitRun(text, i + 1)] = ">"

\* group(1) of the match at position i
Group1(text, i) == SubSeq(text, i + 1, i + DigitRun(text, i + 1))

RECURSIVE SearchFrom(_, _)
\* re.search scans the start positions from left to right
SearchFrom(text, i) ==
    IF i > Len(text) THEN None
    ELSE IF MatchAt(text, i) THEN Return(Group1(text, i))
    ELSE SearchFrom(text, i + 1)

re_search(text) == SearchFrom(text, 1)

\* RegexParser.parse(text)["bid"] for regex=r"<(\d+)>", output_keys=["bid"],
\* default_output_key="bid": group(1) of the first match; without a match the
\* parser (which raises only when it has no default_output_key) gives the whole
\* text under the default key
bid_parser_parse(text) ==
    LET m == re_search(text) IN
    IF m.kind = "return" THEN Return(m.value) ELSE Return(text)

Whitespace == {" ", "\n", "\t"}

RECURSIVE lstrip(_)
lstrip(s) == IF s # <<>> /\ s[1] \in Whitespace THEN lstrip(Tail(s)) ELSE s

RECURSIVE rstrip(_)
rstrip(s) ==
    IF s # <<>> /\ s[Len(s)] \in Whitespace THEN rstrip(SubSeq(s, 1, Len(s) - 1)) ELSE s

NotUnderscore(c) == c # "_"

\* digits, with single underscores allowed between two digits
IsDecimalLiteral(b) ==
    /\ b # <<>>
    /\ \A i \in 1..Len(b) :
          \/ b[i] \in Digits
          \/ /\ b[i] = "_"
             /\ 1 < i /\ i < Len(b)
             /\ b[i - 1] \in Digits /\ b[i + 1] \in Digits

\* int(s) of a str: surrounding whitespace, an optional sign, a decimal literal;
\* anything else raises ValueError
int(s) ==
    LET t == rstrip(lstrip(s))
        signed == t # <<>> /\ t[1] \in {"-", "+"}
        b == IF signed THEN Tail(t) ELSE t
        v == DecimalValue(SelectSeq(b, NotUnderscore))
    IN  IF ~IsDecimalLiteral(b) THEN Raise("ValueError")
        ELSE IF signed /\ t[1] = "-" THEN Return(0 - v)
        ELSE Return(v)

\* bid = int(bid_parser.parse(bid_string)["bid"])
parse_bid(bid_string) ==
    LET d == bid_parser_parse(bid_string) IN
    IF d.kind = "raise" THEN d ELSE int(d.value)

\* the body of ask_for_bid, given what agent.bid() did: its exception, or the
\* parsed bid, or the ValueError of the parsing
ask_for_bid_body(o) == IF o.kind = "raise" THEN o ELSE parse_bid(o.value)

stop_after_attempt == 2
retry_error_callback == 0

\* mutant: every exception is retried
retry_if_exception(r) == r.kind = "raise"

\* retry=retry_if_exception_type(ValueError)
retry_if_exception_type(r) == r.kind = "raise" /\ r.error = "ValueError"

\* mutant: without retry_error_callback the last failure raises RetryError
tenacity_retry_reraise(attempt, r) ==
    IF ~(r.kind = "raise" /\ r.error = "ValueError") THEN r
    ELSE IF attempt >= stop_after_attempt THEN Raise("RetryError")
    ELSE [kind |-> "retry"]

\* mutant: one attempt more before stopping
tenacity_retry_one_more(attempt, r) ==
    IF ~(r.kind = "raise" /\ r.error = "ValueError") THEN r
    ELSE IF attempt > stop_after_attempt THEN Return(retry_error_callback)
    ELSE [kind |-> "retry"]

\* mutant: no stop condition, a ValueError is always retried
tenacity_retry_forever(attempt, r) ==
    IF ~(r.kind = "raise" /\ r.error = "ValueError") THEN r
    ELSE [kind |-> "retry"]

\* tenacity, after attempt number attempt of ask_for_bid ended with r: the value
\* returned, "retry", or the exception raised to the caller
tenacity_retry(attempt, r) ==
    IF ~retry_if_exception_type(r) THEN r
    ELSE IF attempt >= stop_after_attempt THEN Return(retry_error_callback)
    ELSE [kind |-> "retry"]

----------------------------------------------------------------------------
(* DialogueAgent and BiddingDialogueAgent *)

\* character_names, continued with further names for larger rosters
character_names ==
    <<"Sherlock Holmes", "Dr. John Watson", "Dr. James Mortimer",
      "Sir Henry Baskerville", "Barrymore", "Stapleton">>

Sentinel == <<"Here is the conversation so far.">>

\* self.prefix = f"{self.name}: "
prefix(name) == <<name, ": ">>

\* mutant: reset() leaves an empty message_history
DialogueAgent_reset_empty == <<>>

\* DialogueAgent.reset: the new message_history
DialogueAgent_reset == <<Sentinel>>

\* mutant: the line is stored without the speaker's name
receive_message_only(history, name, message) == Append(history, message)

\* mutant: the line is put in front of the history
receive_in_front(history, name, message) == <<(<<name, ": ">> \o message)>> \o history

\* mutant: the line takes the place of the last entry
receive_replaces_last(history, name, message) ==
    Append(SubSeq(history, 1, Len(history) - 1), <<name, ": ">> \o message)

\* DialogueAgent.receive: the message_history after receive(name, message)
DialogueAgent_receive(history, name, message) ==
    Append(history, <<name, ": ">> \o message)

\* DialogueAgent.send: the content of the HumanMessage handed to the model
send_request(history, name) == join(<<"\n">>, history \o <<prefix(name)>>)

\* mutant: send() appends its prefix to message_history itself
history_after_send_keeps_prefix(history, name) == Append(history, prefix(name))

\* DialogueAgent.send: message_history once send() has built its request
\* (self.message_history + [self.prefix] is a new list)
history_after_send(history, name) == history

\* the texts of generate_character_bidding_template around its two holes
character_header(name) == <<"character_header of ", name>>
bidding_question ==
    <<"\n\nOn the scale of 1 to 10, ... how much do you want to speak next ...\n\n">>
bidding_instructions ==
    <<"\n\nYour response should be an integer delimited by angled brackets, like this: <int>.\n\nDo nothing else.\n    ">>

\* mutant: the recent_message hole takes the first entry of message_history
bid_prompt_first_entry(history, name) ==
    character_header(name) \o <<"\n\n">>
    \o join(<<"\n">>, history)
    \o bidding_question
    \o history[1]
    \o bidding_instructions

\* generate_character_bidding_template, rendered by BiddingDialogueAgent.bid
bid_prompt(history, name) ==
    character_header(name) \o <<"\n\n">>
    \o join(<<"\n">>, history)
    \o bidding_question
    \o history[Len(history)]
    \o bidding_instructions

\* mutant: bid() leaves the recent message a second time in message_history
history_after_bid_appends(history, name) == Append(history, history[Len(history)])

\* BiddingDialogueAgent.bid: message_history once bid() has rendered its prompt
history_after_bid(history, name) == history

----------------------------------------------------------------------------
(* What the chat model can answer *)

\* texts a bidding call can return
BidTexts ==
    { <<"<", "3", ">">>, <<"<", "7", ">">>, <<"<", "2", ">">>, <<"n", "o">> }

\* texts a speaking call can return
Utterances == { <<"Indeed.">>, <<>> }

BidOutcomes == {Return(t) : t \in BidTexts} \cup {Raise(e) : e \in Errors}
SendOutcomes == {Return(u) : u \in Utterances} \cup {Raise(e) : e \in Errors}

\* labels and messages of inject(): a label that is no agent's name, and the
\* name of the first agent
InjectNames == {"Narrator", "Sherlock Holmes"}
InjectMessages == { <<"Hello">> }

----------------------------------------------------------------------------
(* select_next_speaker *)

\* mutant: the lowest bid is taken
np_min(bs) == CHOOSE m \in {bs[i] : i \in 1..Len(bs)} : \A i \in 1..Len(bs) : m <= bs[i]

\* np.max(bids)
np_max(bs) == CHOOSE m \in {bs[i] : i \in 1..Len(bs)} : \A i \in 1..Len(bs) : bs[i] <= m

\* np.where(bids == max_value)[0], as 0-based indices
max_indices(bs) == {i \in 0..(Len(bs) - 1) : bs[i + 1] = np_max(bs)}

\* mutant: the first of the indices is always taken (as np.argmax gives)
first_index(a) == {i \in a : \A j \in a : i <= j}

\* np.random.choice(a): the values it can return
np_random_choice(a) == a

----------------------------------------------------------------------------
(* DialogueSimulator *)

Roster == 1..Len(agents)

Raised(e, f) == [kind |-> "raise", error |-> e, from |-> f]

Entry(op) == [op |-> op, history |-> message_history, step |-> _step]

\* the state after the module has run up to DialogueSimulator(...): every agent
\* was reset by its constructor, _step = 0
Constructed(rosterSizes) ==
    /\ \E size \in rosterSizes : agents = SubSeq(character_names, 1, size)
    /\ message_history = [i \in 1..Len(agents) |-> DialogueAgent_reset]
    /\ _step = 0
    /\ bids = <<>>
    /\ attempt_number = 0
    /\ idx = None
    /\ request = None
    /\ result = None
    /\ entry = Entry("__init__")
    /\ log = <<>>
    /\ n = 0

Init == Constructed(1..MaxAgents) /\ pc = "idle" /\ outcome = None /\ main = "any"

\* mutant: reset() also sets the counter back to 0
reset_and_zero ==
    /\ pc = "idle"
    /\ message_history' = [i \in Roster |-> DialogueAgent_reset]
    /\ _step' = 0
    /\ result' = Return(<<>>)
    /\ entry' = Entry("reset")
    /\ log' = <<[op |-> "reset", step |-> _step]>>
    /\ bids' = <<>>
    /\ attempt_number' = 0
    /\ outcome' = None
    /\ idx' = None
    /\ request' = None
    /\ UNCHANGED <<agents, pc>>

\* mutant: reset() resets the first agent only
reset_first_agent ==
    /\ pc = "idle"
    /\ message_history' = [message_history EXCEPT ![1] = DialogueAgent_reset]
    /\ result' = Return(<<>>)
    /\ entry' = Entry("reset")
    /\ log' = <<[op |-> "reset", step |-> _step]>>
    /\ bids' = <<>>
    /\ attempt_number' = 0
    /\ outcome' = None
    /\ idx' = None
    /\ request' = None
    /\ UNCHANGED <<agents, _step, pc>>

\* DialogueSimulator.reset()
DialogueSimulator_reset ==
    /\ pc = "idle"
    /\ message_history' = [i \in Roster |-> DialogueAgent_reset]
    /\ result' = Return(<<>>)
    /\ entry' = Entry("reset")
    /\ log' = <<[op |-> "reset", step |-> _step]>>
    /\ bids' = <<>>
    /\ attempt_number' = 0
    /\ outcome' = None
    /\ idx' = None
    /\ request' = None
    /\ UNCHANGED <<agents, _step, pc>>

\* mutant: inject() does not count the call
inject_without_count(name, message) ==
    /\ pc = "idle"
    /\ message_history' =
          [i \in Roster |-> DialogueAgent_receive(message_history[i], name, message)]
    /\ result' = Return(<<>>)
    /\ entry' = Entry("inject")
    /\ log' = Append(log, [op |-> "inject", name |-> name, message |-> message])
    /\ bids' = <<>>
    /\ attempt_number' = 0
    /\ outcome' = None
    /\ idx' = None
    /\ request' = None
    /\ UNCHANGED <<agents, _step, pc>>

\* DialogueSimulator.inject(name, message)
DialogueSimulator_inject(name, message) ==
    /\ pc = "idle"
    /\ message_history' =
          [i \in Roster |-> DialogueAgent_receive(message_history[i], name, message)]
    /\ _step' = _step + 1
    /\ result' = Return(<<>>)
    /\ entry' = Entry("inject")
    /\ log' = Append(log, [op |-> "inject", name |-> name, message |-> message])
    /\ bids' = <<>>
    /\ attempt_number' = 0
    /\ outcome' = None
    /\ idx' = None
    /\ request' = None
    /\ UNCHANGED <<agents, pc>>

\* DialogueSimulator.step() is called and calls select_next_speaker: bids = []
StepCall ==
    /\ pc = "idle"
    /\ pc' = "ask"
    /\ bids' = <<>>
    /\ attempt_number' = 0
    /\ outcome' = None
    /\ idx' = None
    /\ request' = None
    /\ result' = None
    /\ entry' = Entry("step")
    /\ UNCHANGED <<agents, message_history, _step, log>>

\* mutant: the loop asks the agents from the last to the first
next_bidder_reversed(bs, roster) == Len(roster) - Len(bs)

\* "for agent in agents": the place in agents of the agent asked when the
\* bids bs are in the list
next_bidder(bs, roster) == Len(bs) + 1

\* one attempt of ask_for_bid(agent) for the next agent of the loop of
\* select_next_speaker: agent.bid() ends with o, the text is parsed, and
\* tenacity returns the bid, retries, gives the default or lets the error out
AskForBid(o) ==
    /\ pc \in {"ask", "retry"}
    /\ LET k == next_bidder(bids, agents)
           attempt == IF pc = "ask" THEN 1 ELSE attempt_number + 1
           t == tenacity_retry(attempt, ask_for_bid_body(o))
       IN  /\ request' = bid_prompt(message_history[k], agents[k])
           /\ message_history' =
                 [message_history EXCEPT ![k] = history_after_bid(@, agents[k])]
           /\ attempt_number' = attempt
           /\ outcome' = o
           /\ \/ /\ t.kind = "retry"
                 /\ pc' = "retry"
                 /\ UNCHANGED <<bids, result>>
              \/ /\ t.kind = "return"
                 /\ bids' = Append(bids, t.value)
                 /\ pc' = IF k = Len(agents) THEN "select" ELSE "ask"
                 /\ UNCHANGED result
              \/ /\ t.kind = "raise"
                 /\ pc' = "idle"
                 /\ result' = Raised(t.error, "bid")
                 /\ bids' = <<>>
    /\ UNCHANGED <<agents, _step, idx, entry, log>>

\* the rest of select_next_speaker, returning idx = i
SelectSpeakerAt(i) ==
    /\ pc = "select"
    /\ i \in np_random_choice(max_indices(bids))
    /\ idx' = i
    /\ pc' = "send"
    /\ UNCHANGED <<agents, message_history, _step, bids, attempt_number, outcome,
                   request, result, entry, log>>

SelectSpeaker == \E i \in 0..(Len(agents) - 1) : SelectSpeakerAt(i)

\* mutant: _step is incremented even when send() raised
step_after_send_counts(o, histories, speaker, step) ==
    IF o.kind = "raise"
    THEN [pc |-> "idle", history |-> histories, step |-> step + 1,
          result |-> Raised(o.error, "send")]
    ELSE [pc |-> "receive", history |-> histories, step |-> step, result |-> None]

\* step() after speaker.send() ended with o: an exception leaves step() at
\* once, a message takes step() on to its receive loop
step_after_send(o, histories, speaker, step) ==
    IF o.kind = "raise"
    THEN [pc |-> "idle", history |-> histories, step |-> step,
          result |-> Raised(o.error, "send")]
    ELSE [pc |-> "receive", history |-> histories, step |-> step, result |-> None]

\* step(), "2. next speaker sends message": speaker.send() ends with o
Send(o) ==
    /\ pc = "send"
    /\ LET speaker == agents[idx + 1]
           sent == [message_history EXCEPT
                       ![idx + 1] = history_after_send(@, speaker)]
           after == step_after_send(o, sent, speaker, _step)
       IN  /\ request' = send_request(message_history[idx + 1], speaker)
           /\ outcome' = o
           /\ message_history' = after.history
           /\ _step' = after.step
           /\ result' = after.result
           /\ pc' = after.pc
           /\ idx' = IF after.pc = "idle" THEN None ELSE idx
    /\ bids' = <<>>
    /\ UNCHANGED <<agents, attempt_number, entry, log>>

\* step(), "3. everyone receives message": the loop over self.agents
Receive ==
    /\ pc = "receive"
    /\ LET speaker == agents[idx + 1] IN
       /\ message_history' =
             [i \in Roster |->
                 DialogueAgent_receive(message_history[i], speaker, outcome.value)]
       /\ log' = Append(log, [op |-> "step", name |-> speaker,
                              message |-> outcome.value])
    /\ pc' = "increment"
    /\ UNCHANGED <<agents, _step, bids, attempt_number, outcome, idx, request,
                   result, entry>>

\* mutant: step() returns without incrementing _step
Increment_skipped ==
    /\ pc = "increment"
    /\ result' = Return(<<agents[idx + 1], outcome.value>>)
    /\ pc' = "idle"
    /\ idx' = None
    /\ UNCHANGED <<agents, message_history, _step, bids, attempt_number, outcome,
                   request, entry, log>>

\* step(), "4. increment time", and the return of (speaker.name, message)
Increment ==
    /\ pc = "increment"
    /\ _step' = _step + 1
    /\ result' = Return(<<agents[idx + 1], outcome.value>>)
    /\ pc' = "idle"
    /\ idx' = None
    /\ UNCHANGED <<agents, message_history, bids, attempt_number, outcome,
                   request, entry, log>>

\* the simulator called in any order; inject() and step() while _step < MaxTurns
Next ==
    \/ DialogueSimulator_reset /\ UNCHANGED driver
    \/ /\ _step < MaxTurns
       /\ \E name \in InjectNames, message \in InjectMessages :
             DialogueSimulator_inject(name, message)
       /\ UNCHANGED driver
    \/ _step < MaxTurns /\ StepCall /\ UNCHANGED driver
    \/ (\E o \in BidOutcomes : AskForBid(o)) /\ UNCHANGED driver
    \/ SelectSpeaker /\ UNCHANGED driver
    \/ (\E o \in SendOutcomes : Send(o)) /\ UNCHANGED driver
    \/ Receive /\ UNCHANGED driver
    \/ Increment /\ UNCHANGED driver

Spec == Init /\ [][Next]_vars

----------------------------------------------------------------------------
(* SpecLoop: the main code, from simulator.reset() to the end of its while  *)
(* loop. The roster is one agent and send() returns one text, so that the  *)
(* message_history of a run depends on the number of its steps only.        *)

max_iters == 100

\* mutant: the loop goes on while n <= max_iters
loop_condition_inclusive(k) == k <= max_iters

\* while n < max_iters
loop_condition(k) == k < max_iters

LoopSendOutcomes == {Return(<<"Indeed.">>)} \cup {Raise(e) : e \in Errors}

InitLoop == Constructed({1}) /\ pc = "idle" /\ outcome = None /\ main = "reset"

\* simulator.reset()
MainReset ==
    /\ main = "reset"
    /\ DialogueSimulator_reset
    /\ main' = "inject Context"
    /\ n' = n

\* simulator.inject("Context", specified_topic)
MainInjectContext ==
    /\ main = "inject Context"
    /\ DialogueSimulator_inject("Context", <<"specified_topic">>)
    /\ main' = "inject Original Text"
    /\ n' = n

\* simulator.inject("Original Text", original_text)
MainInjectText ==
    /\ main = "inject Original Text"
    /\ DialogueSimulator_inject("Original Text", <<"original_text">>)
    /\ main' = "while"
    /\ n' = n

\* while n < max_iters holds and simulator.step() is called
LoopStep ==
    /\ main = "while"
    /\ loop_condition(n)
    /\ StepCall
    /\ main' = "step"
    /\ n' = n

\* simulator.step() has returned: the prints and n += 1
LoopStepReturned ==
    /\ main = "step"
    /\ pc = "idle"
    /\ result.kind = "return"
    /\ n' = n + 1
    /\ main' = "while"
    /\ UNCHANGED <<agents, message_history, _step, pc, bids, attempt_number,
                   outcome, idx, request, result, entry, log>>

\* simulator.step() has raised: the exception ends the program
LoopStepRaised ==
    /\ main = "step"
    /\ pc = "idle"
    /\ result.kind = "raise"
    /\ main' = "raised"
    /\ UNCHANGED <<agents, message_history, _step, pc, bids, attempt_number,
                   outcome, idx, request, result, entry, log, n>>

\* while n < max_iters does not hold: the end of the program
LoopExit ==
    /\ main = "while"
    /\ ~loop_condition(n)
    /\ main' = "end"
    /\ UNCHANGED <<agents, message_history, _step, pc, bids, attempt_number,
                   outcome, idx, request, result, entry, log, n>>

NextLoop ==
    \/ MainReset
    \/ MainInjectContext
    \/ MainInjectText
    \/ LoopStep
    \/ (\E o \in BidOutcomes : AskForBid(o)) /\ UNCHANGED driver
    \/ SelectSpeaker /\ UNCHANGED driver
    \/ (\E o \in LoopSendOutcomes : Send(o)) /\ UNCHANGED driver
    \/ Receive /\ UNCHANGED driver
    \/ Increment /\ UNCHANGED driver
    \/ LoopStepReturned
    \/ LoopStepRaised
    \/ LoopExit

SpecLoop == InitLoop /\ [][NextLoop]_vars

----------------------------------------------------------------------------
(* SpecStep: step() called on a freshly constructed simulator, with rosters *)
(* of up to MaxBidders agents and more bid values                          *)

StepBidTexts ==
    BidTexts \cup { <<"<", "1", ">">>, <<"<", "9", ">">>, <<"<", "4", ">">>,
                    <<"-", "5">> }

StepBidOutcomes == {Return(t) : t \in StepBidTexts} \cup {Raise(e) : e \in Errors}

InitStep == Constructed(1..MaxBidders) /\ pc = "idle" /\ outcome = None /\ main = "any"

NextStep ==
    \/ _step = 0 /\ StepCall /\ UNCHANGED driver
    \/ (\E o \in StepBidOutcomes : AskForBid(o)) /\ UNCHANGED driver
    \/ SelectSpeaker /\ UNCHANGED driver
    \/ (\E o \in SendOutcomes : Send(o)) /\ UNCHANGED driver
    \/ Receive /\ UNCHANGED driver
    \/ Increment /\ UNCHANGED driver

SpecStep == InitStep /\ [][NextStep]_vars

----------------------------------------------------------------------------
(* SpecParse: the parsing of ask_for_bid applied to every text of up to    *)
(* MaxTextLen characters over Alphabet                                     *)

Alphabet == {"<", ">", "7", "5", "-"}

Texts == UNION {[1..len -> Alphabet] : len \in 0..MaxTextLen}

\* agent.bid() has returned a text
InitParse ==
    /\ Constructed({1})
    /\ pc = "parse"
    /\ main = "any"
    /\ \E t \in Texts : outcome = Return(t)

\* bid = int(bid_parser.parse(bid_string)["bid"]) ends: the bid, or a ValueError
ParseBid ==
    /\ pc = "parse"
    /\ pc' = "parsed"
    /\ result' = parse_bid(outcome.value)
    /\ UNCHANGED <<agents, message_history, _step, bids, attempt_number, outcome,
                   idx, request, entry, log, main, n>>

SpecParse == InitParse /\ [][ParseBid]_vars

----------------------------------------------------------------------------
(* Properties *)

\* the lines receive() was given since the last reset(), oldest first
IsBroadcast(e) == e.op # "reset"
ReceivedLines ==
    LET ops == SelectSeq(log, IsBroadcast) IN
    [k \in 1..Len(ops) |-> <<ops[k].name, ": ">> \o ops[k].message]

StepCompleted == pc = "idle" /\ entry.op = "step" /\ result.kind = "return"

\* C1: in every state, between the calls and at every call of the chat model
\* inside step(), all agents of the roster hold the same message_history, and
\* it consists of the sentinel and the lines given to receive() only: neither
\* the prefix that send() adds to its request nor the prompt of bid() is in it.
C1_TranscriptsIdentical ==
    /\ \A i, j \in Roster : message_history[i] = message_history[j]
    /\ \A i \in Roster : message_history[i] = <<Sentinel>> \o ReceivedLines

\* C1 witness: a step() completed in a roster of several agents after an
\* earlier line, so bid() and send() built their texts from a longer history
C1_Witness ==
    /\ StepCompleted
    /\ Len(agents) >= 2
    /\ Len(message_history[1]) >= 3
    /\ request = send_request(entry.history[2], agents[2])

----------------------------------------------------------------------------
(* C2: the parsing of ask_for_bid, as the claim states it *)

\* text[i..j] is "<", one or more digits, ">"
Bracketed(text, i, j) ==
    /\ text[i] = "<"
    /\ text[j] = ">"
    /\ j > i + 1
    /\ \A k \in (i + 1)..(j - 1) : text[k] \in Digits

HasBracketed(text) == \E i, j \in 1..Len(text) : Bracketed(text, i, j)

\* the integer of the first substring <N>
FirstBracketed(text) ==
    LET i == CHOOSE a \in 1..Len(text) :
                 /\ \E j \in 1..Len(text) : Bracketed(text, a, j)
                 /\ \A b \in 1..(a - 1) : ~\E j \in 1..Len(text) : Bracketed(text, b, j)
        j == CHOOSE c \in 1..Len(text) : Bracketed(text, i, c)
    IN  DecimalValue(SubSeq(text, i + 1, j - 1))

\* C2: a text with a substring <N> parses to the integer N of the first such
\* substring, and every text without one (a bare integer included) ends
\* the parsing with a ValueError and gives no bid.
C2_ParseBid ==
    pc = "parsed" =>
        IF HasBracketed(outcome.value)
        THEN result.kind = "return" /\ result.value = FirstBracketed(outcome.value)
        ELSE result.kind = "raise" /\ result.error = "ValueError"

----------------------------------------------------------------------------
(* C3..C5: ask_for_bid under tenacity *)

\* an attempt that ended with a ValueError: raised by agent.bid() (transient
\* backend error) or by the parsing of its text (format error)
TransientOrFormat(o) ==
    \/ o.kind = "raise" /\ o.error = "ValueError"
    \/ o.kind = "return" /\ parse_bid(o.value).kind = "raise"

FatalError(o) == o.kind = "raise" /\ o.error # "ValueError"

\* C3: when the first attempt of ask_for_bid failed with a transient or a
\* format error and the second fails with either as well, ask_for_bid returns
\* 0: 0 is appended to bids, select_next_speaker goes on and nothing is raised.
C3_BothAttemptsFail ==
    [][ (pc = "retry" /\ TransientOrFormat(outcome) /\ TransientOrFormat(outcome'))
        => /\ bids' = Append(bids, 0)
           /\ pc' \in {"ask", "select"}
           /\ result'.kind # "raise" ]_vars

\* C3 witness: a second attempt ended with a transient error and the bid is 0
C3_Witness ==
    /\ pc \in {"ask", "select"}
    /\ attempt_number = 2
    /\ outcome = Raise("ValueError")
    /\ bids # <<>> /\ bids[Len(bids)] = 0

\* C4: every step of ask_for_bid is one call of agent.bid(), the first or the
\* second and never a third; the second is made exactly when the first ended
\* with a transient or a format error, and is again a bid() call whose text is
\* parsed; a first attempt that parses gives its value to bids at once.
C4_AtMostTwoAttempts ==
    [][ (pc \in {"ask", "retry"})
        => /\ attempt_number' = IF pc = "ask" THEN 1 ELSE 2
           /\ request' = bid_prompt(entry.history[Len(bids) + 1], agents[Len(bids) + 1])
           /\ (pc' = "retry") <=> (pc = "ask" /\ TransientOrFormat(outcome'))
           /\ (outcome'.kind = "return" /\ parse_bid(outcome'.value).kind = "return")
                 => (/\ bids' = Append(bids, parse_bid(outcome'.value).value)
                     /\ pc' \in {"ask", "select"})
      ]_vars

\* C4 witness: a second attempt was made and its text gave the bid
C4_Witness ==
    /\ pc \in {"ask", "select"}
    /\ attempt_number = 2
    /\ outcome = Return(<<"<", "7", ">">>)
    /\ bids # <<>> /\ bids[Len(bids)] = 7

\* C5: an exception of agent.bid() that is not a ValueError, at the first or
\* the second attempt, ends step() with that exception: no retry, no bid of 0,
\* no further bid() or send(), every message_history and _step as they were
\* when step() was called.
C5_FatalBidError ==
    [][ (pc \in {"ask", "retry"} /\ FatalError(outcome'))
        => /\ pc' = "idle"
           /\ result'.kind = "raise"
           /\ result'.from = "bid" /\ result'.error = outcome'.error
           /\ attempt_number' = IF pc = "ask" THEN 1 ELSE 2
           /\ message_history' = entry.history
           /\ _step' = entry.step
           /\ log' = log ]_vars

\* C5 witness: the second attempt of the second agent raised the fatal error
C5_Witness ==
    /\ pc = "idle"
    /\ result.kind = "raise"
    /\ result.from = "bid" /\ result.error = "RuntimeError"
    /\ attempt_number = 2
    /\ Len(agents) >= 2
    /\ Len(message_history[2]) >= 2
    /\ request = bid_prompt(message_history[2], agents[2])

----------------------------------------------------------------------------
(* C6, C7: select_next_speaker *)

IsHighest(i) == \A j \in 1..Len(bids) : bids[j] <= bids[i + 1]

\* C6: the index select_next_speaker returns is in the roster and its bid is
\* the maximum of bids, so it is the one index of the maximum when only one
\* agent holds it, and a step() that completes returns that agent's name.
C6_SpeakerHoldsMaximum ==
    /\ [](pc = "send" =>
            /\ Len(bids) = Len(agents)
            /\ idx \in 0..(Len(agents) - 1)
            /\ IsHighest(idx)
            /\ \A i \in 0..(Len(agents) - 1) :
                  (\A j \in 0..(Len(agents) - 1) : j # i => bids[j + 1] < bids[i + 1])
                     => idx = i)
    /\ [][ (pc = "increment" /\ result'.kind = "return")
           => result'.value[1] = agents[idx + 1] ]_vars

\* C6 witness: bids [1, 9, 4] gave index 1
C6_Witness == pc = "send" /\ bids = <<1, 9, 4>> /\ idx = 1

\* C7: once the bids are collected, the indices select_next_speaker can return
\* are exactly the indices whose bid is the maximum: each of them can be
\* returned and no other can; with all bids 0 that is every agent.
C7_EveryTiedIndexPossible ==
    pc = "select" =>
        \A i \in 0..(Len(agents) - 1) : (ENABLED SelectSpeakerAt(i)) <=> IsHighest(i)

\* C7 witness: bids [3, 7, 7, 2] gave index 2, the second of the tied agents
C7_Witness == pc = "send" /\ bids = <<3, 7, 7, 2>> /\ idx = 2

----------------------------------------------------------------------------
(* C8..C10: step() *)

\* C8: a step() that completes has appended the one line "<winner>: <text>"
\* to the message_history every agent had when step() was called, where text
\* is what the winner's send() returned; _step is one more than at the call,
\* and the pair (winner name, text) is returned.
C8_StepBroadcasts ==
    [][ (pc = "increment" /\ result'.kind = "return")
        => /\ pc' = "idle"
           /\ outcome'.kind = "return"
           /\ result'.value = <<agents[idx + 1], outcome'.value>>
           /\ \A i \in Roster :
                 message_history'[i] =
                    Append(entry.history[i], <<agents[idx + 1], ": ">> \o outcome'.value)
           /\ _step' = entry.step + 1 ]_vars

\* C8 witness: the second agent of three won and its non-empty text was broadcast
C8_Witness ==
    /\ StepCompleted
    /\ Len(agents) = 3
    /\ result.value = <<agents[2], <<"Indeed.">> >>
    /\ Len(message_history[3]) = 3

\* C9: an exception of the speaker's send(), ValueError or not, ends step()
\* with that exception after the one send() call: nothing is received, every
\* message_history and _step are as they were when step() was called.
C9_SendError ==
    [][ (pc = "send" /\ outcome'.kind = "raise")
        => /\ pc' = "idle"
           /\ result'.kind = "raise"
           /\ result'.from = "send" /\ result'.error = outcome'.error
           /\ message_history' = entry.history
           /\ _step' = entry.step
           /\ log' = log ]_vars

\* C9 witness: send() raised a ValueError after an earlier line was broadcast
C9_Witness ==
    /\ pc = "idle"
    /\ result.kind = "raise"
    /\ result.from = "send" /\ result.error = "ValueError"
    /\ Len(message_history[1]) >= 2

\* the calls completed since the last reset() are N step() calls
OnlyStepsSinceReset ==
    /\ log # <<>>
    /\ log[1].op = "reset"
    /\ \A k \in 2..Len(log) : log[k].op = "step"

\* C10: after reset() and then N completed step() calls with no inject(),
\* every message_history has N + 1 entries: the sentinel, then the N lines
\* "<speaker>: <text>" of those steps in their order.
C10_ResetThenSteps ==
    OnlyStepsSinceReset =>
        \A i \in Roster :
            /\ Len(message_history[i]) = Len(log)
            /\ message_history[i][1] = Sentinel
            /\ \A k \in 2..Len(log) :
                  message_history[i][k] = <<log[k].name, ": ">> \o log[k].message

\* C10 witness: reset() and two completed steps
C10_Witness ==
    /\ pc = "idle"
    /\ OnlyStepsSinceReset
    /\ Len(log) = 3
    /\ _step = 2

\* a state change that is a whole inject() call
IsInject == pc = "idle" /\ pc' = "idle" /\ entry'.op = "inject"

\* a state change that is a whole reset() call
IsReset == pc = "idle" /\ pc' = "idle" /\ entry'.op = "reset"

\* a state change that ends step() with its return value
IsStepReturn == pc = "increment" /\ result'.kind = "return"

\* a state change that is the receive loop of step()
IsStepReceive == pc = "receive" /\ pc' = "increment"

\* C11: _step starts at 0 and never decreases; every inject() and every
\* completed step() adds exactly one to it, and nothing else changes it:
\* reset() and a step() that raises (from a bid or from send) leave it as it was.
C11_CounterCountsCalls ==
    /\ _step = 0
    /\ [][ IF IsInject \/ IsStepReturn
            THEN _step' = _step + 1
            ELSE _step' = _step ]_vars

\* C11 witness: inject(), reset(), then a step() that raised: the counter is
\* still the one inject()
C11_Witness ==
    /\ pc = "idle"
    /\ entry.op = "step"
    /\ result.kind = "raise"
    /\ Len(log) = 1
    /\ log[1].op = "reset"
    /\ _step = 1

\* s is an initial part of t
IsPrefix(s, t) == Len(s) <= Len(t) /\ SubSeq(t, 1, Len(s)) = s

\* the line "<name>: <message>" that was received last
LastLine == LET e == log[Len(log)] IN <<e.name, ": ">> \o e.message

\* C12 as stated: every message_history is append-only in every state change,
\* reset() in mid-session included, and every inject() and every completed
\* step() appends its line, so that every line since the simulator was created
\* stays in it in order.
C12_AppendOnlySinceCreated ==
    [][ \A i \in Roster :
          /\ IsPrefix(message_history[i], message_history'[i])
          /\ (IsInject \/ IsStepReceive) =>
                 message_history'[i] = Append(message_history[i], LastLine') ]_vars

\* C12 amended: reset() cuts every message_history back to the sentinel; every
\* other state change keeps it as an initial part, and every inject() and every
\* completed step() appends its line: every message_history is append-only
\* between resets and holds, in order, the sentinel and every line injected or
\* broadcast since the last reset() (since the construction if there was none).
C12_AppendOnlySinceReset ==
    /\ \A i \in Roster : message_history[i] = <<Sentinel>>
    /\ [][ \A i \in Roster :
             IF IsReset
             THEN message_history'[i] = <<Sentinel>>
             ELSE /\ IsPrefix(message_history[i], message_history'[i])
                  /\ (IsInject \/ IsStepReceive) =>
                         message_history'[i] = Append(message_history[i], LastLine')
                  /\ message_history'[i] = <<Sentinel>> \o ReceivedLines' ]_vars

\* C12 witness: a line was received, reset() was called in mid-session, and a
\* line was injected after it
C12_Witness ==
    /\ pc = "idle"
    /\ entry.op = "inject"
    /\ Len(log) = 2
    /\ log[1].op = "reset"
    /\ _step = 2

\* C13: every bid that ask_for_bid has handed to select_next_speaker is a
\* non-negative integer, whatever the texts the chat model answered.
C13_BidsNonNegative == \A k \in 1..Len(bids) : bids[k] >= 0

\* the state of the simulator and of its agents
ProgramState == <<agents, message_history, _step>>

\* the last call was reset() and nothing was called since
JustReset == pc = "idle" /\ entry.op = "reset"

\* C14: from any state, reset() leaves every message_history equal to the one
\* sentinel line and _step and the roster as they were; reset() called right
\* after reset() changes nothing, so two calls yield the state of one call.
C14_ResetIdempotent ==
    [][ IsReset =>
          /\ \A i \in Roster :
                message_history'[i] = <<(<<"Here is the conversation so far.">>)>>
          /\ _step' = _step
          /\ agents' = agents
          /\ JustReset => ProgramState' = ProgramState ]_vars

\* C14 witness: after a line was received, reset() and reset() again: the
\* second call began with the sentinel only and the counter is still 1
C14_Witness ==
    /\ JustReset
    /\ \A i \in Roster : entry.history[i] = <<Sentinel>>
    /\ \A i \in Roster : message_history[i] = <<Sentinel>>
    /\ entry.step = 1
    /\ _step = 1

\* the names of the agents of the roster
RosterNames == {agents[i] : i \in Roster}

\* C15: inject(name, message) appends the one line "<name>: <message>" to every
\* message_history and adds exactly one to _step, whether or not name is the
\* name of an agent; it returns normally, and no bid() and no send() is called:
\* between the call and its return no chat model request is made and no
\* outcome of one is taken.
C15_Inject ==
    [][ IsInject =>
          LET call == log'[Len(log')] IN
          /\ call.op = "inject"
          /\ call.name \in InjectNames
          /\ \A i \in Roster :
                /\ Len(message_history'[i]) = Len(message_history[i]) + 1
                /\ SubSeq(message_history'[i], 1, Len(message_history[i]))
                      = message_history[i]
                /\ message_history'[i][Len(message_history'[i])]
                      = <<call.name, ": ">> \o call.message
          /\ _step' = _step + 1
          /\ result'.kind = "return"
          /\ request'.kind = "none"
          /\ outcome'.kind = "none" ]_vars

\* C15 witness: an inject() under a label that is no agent's name, after an
\* inject() under the name of an agent
C15_Witness ==
    /\ pc = "idle"
    /\ entry.op = "inject"
    /\ Len(log) = 2
    /\ log[1].op = "inject" /\ log[1].name \in RosterNames
    /\ log[2].op = "inject" /\ log[2].name \notin RosterNames
    /\ _step = 2

\* C16: the order of the events of one step(). While bids are asked, each
\* chat model request is the bid prompt of the agent whose place follows the
\* bids already in the list: agent 0 first, and an agent's retry comes before
\* any request for the next agent; bids are appended in that order and no
\* index is chosen before the list is full. The index is chosen with all the
\* bids, then the one send() request is made and it is the winner's; nothing
\* is received and _step is not changed before send() has returned; the
\* receive loop runs next and _step is incremented after it, last.
C16_StepOrder ==
    [][ /\ (pc' = "ask" /\ pc = "idle") => bids' = <<>>
        /\ (pc \in {"ask", "retry"}) =>
              LET k == Len(bids) + 1 IN
              /\ k <= Len(agents)
              /\ request' = bid_prompt(message_history[k], agents[k])
              /\ (pc' = "retry") => (bids' = bids /\ pc = "ask")
              /\ (pc' \in {"ask", "select"}) =>
                    (Len(bids') = k /\ SubSeq(bids', 1, k - 1) = bids)
              /\ (pc' = "select") <=> (Len(bids') = Len(agents))
              /\ pc' \in {"ask", "retry", "select", "idle"}
              /\ idx' = None
              /\ message_history' = message_history /\ _step' = _step
        /\ (pc = "select") =>
              /\ Len(bids) = Len(agents)
              /\ pc' = "send"
              /\ idx' \in 0..(Len(agents) - 1)
              /\ request' = request
              /\ message_history' = message_history /\ _step' = _step
        /\ (pc' = "send") => (pc = "select")
        /\ (pc = "send") =>
              /\ request' = send_request(message_history[idx + 1], agents[idx + 1])
              /\ message_history' = message_history /\ _step' = _step
              /\ pc' = IF outcome'.kind = "return" THEN "receive" ELSE "idle"
        /\ (pc = "receive") =>
              /\ outcome.kind = "return"
              /\ request' = request /\ outcome' = outcome
              /\ \A i \in Roster :
                    Len(message_history'[i]) = Len(message_history[i]) + 1
              /\ _step' = _step
              /\ pc' = "increment"
        /\ (pc = "increment") =>
              /\ request' = request /\ outcome' = outcome
              /\ message_history' = message_history
              /\ _step' = _step + 1
              /\ pc' = "idle" ]_vars

\* C16 witness: a step() of three agents has run to its end, the last agent
\* having been asked twice, and the second agent has spoken
C16_Witness ==
    /\ StepCompleted
    /\ Len(agents) = 3
    /\ attempt_number = 2
    /\ result.value[1] = agents[2]
    /\ request = send_request(entry.history[2], agents[2])

\* the sentinel and every line injected or broadcast since the last reset()
LinesSinceReset == <<Sentinel>> \o ReceivedLines

\* C17: at every bid() and every send() the message_history of the agent
\* called is the sentinel and every line injected or broadcast since the last
\* reset(), in order; the request of send() is these lines joined by newlines
\* and then, after one more newline, the suffix "<name>: " of the speaker; in
\* the prompt of bid() they are joined in the message_history hole and the
\* recent_message hole holds the last of them.
C17_RequestsHoldTranscript ==
    [][ /\ (pc \in {"ask", "retry"}) =>
              LET k == Len(bids) + 1
                  lines == LinesSinceReset
              IN  /\ message_history[k] = lines
                  /\ request' = character_header(agents[k]) \o <<"\n\n">>
                                   \o join(<<"\n">>, lines)
                                   \o bidding_question
                                   \o lines[Len(lines)]
                                   \o bidding_instructions
        /\ (pc = "send") =>
              LET lines == LinesSinceReset IN
              /\ message_history[idx + 1] = lines
              /\ request' = join(<<"\n">>, lines) \o <<"\n">>
                               \o <<agents[idx + 1], ": ">> ]_vars

\* C17 witness: inject("Narrator", "Hello") and then a step() on a new
\* simulator: the request of the winner's send() was the sentinel, the line
\* "Narrator: Hello" and then the winner's "<name>: "
C17_Witness ==
    /\ StepCompleted
    /\ Len(log) = 2
    /\ log[1].op = "inject" /\ log[1].name = "Narrator"
    /\ request = <<"Here is the conversation so far.", "\n",
                   "Narrator", ": ", "Hello", "\n", result.value[1], ": ">>

\* C18: a bid() and a send(), whether the chat model answers or raises, leave
\* every message_history, the caller's own included, and _step as they were;
\* a message_history changes only in a receive loop (of inject() or of
\* step()), which appends one line to it, and in reset(), which cuts it back
\* to the sentinel.
C18_BidAndSendChangeNothing ==
    [][ /\ (pc \in {"ask", "retry", "send"}) =>
              /\ outcome'.kind \in {"return", "raise"}
              /\ \A i \in Roster : message_history'[i] = message_history[i]
              /\ _step' = _step
        /\ \A i \in Roster :
              (message_history'[i] # message_history[i]) =>
                 \/ /\ IsInject \/ IsStepReceive
                    /\ Len(message_history'[i]) = Len(message_history[i]) + 1
                    /\ IsPrefix(message_history[i], message_history'[i])
                 \/ /\ IsReset
                    /\ message_history'[i] = DialogueAgent_reset ]_vars

\* C18 witness: with a line in every message_history, the first bid() of the
\* second agent raised a ValueError and is about to be asked again
C18_Witness ==
    /\ pc = "retry"
    /\ Len(bids) = 1
    /\ outcome.kind = "raise"
    /\ Len(message_history[2]) = 2
    /\ message_history = entry.history

\* the most state changes step() can still make: two bid() calls for every
\* agent not yet resolved (one, for the agent being retried), then the choice
\* of the index, the send() call, the receive loop and the increment
StepsLeft ==
    LET unresolved == Len(agents) - Len(bids) IN
    CASE pc = "ask" -> 2 * unresolved + 4
      [] pc = "retry" -> 2 * unresolved + 3
      [] pc = "select" -> 4
      [] pc = "send" -> 3
      [] pc = "receive" -> 2
      [] pc = "increment" -> 1
      [] OTHER -> 0

\* the statement step() is at can be executed: there is an agent to ask, or
\* a list of bids with a maximum, or a speaker within the roster, and a
\* message once send() has returned
StepCanGoOn ==
    CASE pc \in {"ask", "retry"} -> Len(bids) + 1 \in Roster
      [] pc = "select" -> Len(bids) = Len(agents) /\ max_indices(bids) # {}
      [] pc = "send" -> idx + 1 \in Roster
      [] pc \in {"receive", "increment"} ->
            idx + 1 \in Roster /\ outcome.kind = "return"
      [] OTHER -> pc = "idle"

\* C19: step() terminates when every chat model call returns or raises: it
\* can execute its next statement wherever it is, and each one brings it nearer to
\* its end by a measure that starts at two bid() calls per agent, the choice,
\* one send() call, the receive loop and the increment. A bid() attempt that
\* fails with a transient or a format error never ends step(), however many
\* agents fail; when send() returns, one line is received by every agent, _step
\* advances by one and step() returns.
C19_StepTerminates ==
    /\ []StepCanGoOn
    /\ [][ /\ (pc = "idle" /\ pc' = "ask") => StepsLeft' = 2 * Len(agents) + 4
           /\ (pc # "idle") => (StepsLeft' < StepsLeft /\ StepsLeft' >= 0)
           /\ (pc \in {"ask", "retry"}) =>
                 attempt_number' = (IF pc = "ask" THEN 1 ELSE 2)
           /\ (pc \in {"ask", "retry"} /\ ~FatalError(outcome')) => pc' # "idle"
           /\ (pc = "send" /\ outcome'.kind = "return") => pc' = "receive"
           /\ (pc = "receive") =>
                 /\ pc' = "increment"
                 /\ \A i \in Roster :
                       message_history'[i] =
                          Append(entry.history[i],
                                 <<agents[idx + 1], ": ">> \o outcome.value)
           /\ (pc = "increment") =>
                 /\ pc' = "idle"
                 /\ result'.kind = "return"
                 /\ _step' = entry.step + 1 ]_vars

\* C19 witness: every one of three agents failed both its attempts with a
\* transient or a format error and send() is about to be called
C19_Witness ==
    /\ pc = "send"
    /\ bids = <<0, 0, 0>>
    /\ attempt_number = 2
    /\ TransientOrFormat(outcome)

\* the step() calls whose line was received since the last reset()
StepsInLog == SelectSeq(log, LAMBDA e : e.op = "step")

\* C20: the simulator has no last state: whenever no call is running, after
\* any number of completed steps, step() can be called. The main code, after
\* reset() and two inject() calls, tests its loop with _step = n + 2 after n
\* completed step() calls; when it ends without an exception, n = max_iters
\* step() calls were made and completed and _step = max_iters + 2.
C20_LoopBoundsTheRun ==
    /\ pc = "idle" => ENABLED StepCall
    /\ main \in {"while", "end"} =>
          /\ n <= max_iters
          /\ _step = n + 2
          /\ Len(StepsInLog) = n
          /\ Len(log) = n + 3
          /\ \A i \in Roster : Len(message_history[i]) = n + 3
    /\ main = "end" =>
          /\ n = max_iters
          /\ _step = max_iters + 2

\* C20 witness: the loop has ended after max_iters steps
C20_Witness ==
    /\ main = "end"
    /\ Len(StepsInLog) = max_iters
    /\ _step = max_iters + 2

\* C21: in every state, from the construction on and whether or not
\* simulator.reset() was ever called, every message_history has at least one
\* entry and its first entry is the sentinel "Here is the conversation so
\* far."; so message_history[-1] exists whenever bid() reads it.
C21_SentinelFirst ==
    /\ \A i \in Roster :
          /\ Len(message_history[i]) >= 1
          /\ message_history[i][1] = <<"Here is the conversation so far.">>
    /\ pc \in {"ask", "retry"} =>
          LET history == message_history[Len(bids) + 1] IN
          Len(history) \in DOMAIN history

\* C21 witness: on a new simulator, with no reset() and no inject(), step()
\* was called and the bid() of the second agent found the sentinel as the
\* most recent line
C21_Witness ==
    /\ pc \in {"ask", "select"}
    /\ Len(log) = 0
    /\ Len(bids) = 2
    /\ request = character_header(agents[2]) \o <<"\n\n">> \o Sentinel
                    \o bidding_question \o Sentinel \o bidding_instructions

\* reset() was called after the first inject() or completed step(): the last
\* reset() found _step >= 1 (_step never decreases, so every later reset()
\* finds it so as well)
ResetAfterFirstLine == Len(log) >= 1 /\ log[1].op = "reset" /\ log[1].step >= 1

\* C22: between the calls of reset(), inject() and step(), the number of
\* entries after the sentinel in every message_history is at most _step, and
\* it equals _step exactly when no reset() was called after the first
\* inject() or completed step().
C22_LinesAtMostCounter ==
    pc = "idle" =>
        \A i \in Roster :
            /\ Len(message_history[i]) - 1 <= _step
            /\ (Len(message_history[i]) - 1 = _step) <=> ~ResetAfterFirstLine

\* C22 witness: inject(), reset(), then a completed step(): one line after
\* the sentinel and _step = 2
C22_Witness ==
    /\ StepCompleted
    /\ ResetAfterFirstLine
    /\ log[1].step = 1
    /\ Len(message_history[1]) = 2
    /\ _step = 2

====
